---- MODULE Spec2Model ----
(***************************************************************************)
(* Model of src/src/main.rs: one simulation run fetches the account info   *)
(* and storage slot 8 of the WETH-USDT pair through EthersDB, injects both *)
(* into a CacheDB backed by EmptyDB, executes getReserves() in an Evm      *)
(* bound to that CacheDB and decodes the returned tuple.                   *)
(*                                                                         *)
(* A 256-bit word is a little-endian sequence of 16 limbs of 16 bits, so   *)
(* every word keeps its full width.  Option<T> is a sequence: <<>> is None *)
(* and <<x>> is Some(x).  Every variable is a function over the runs that  *)
(* exist (one process per run); Spec has one run, SpecIso has two.         *)
(***************************************************************************)
EXTENDS Integers, Sequences, FiniteSets, TLC

VARIABLES pc, fetches, acc_info, value, cache_db, journal, ip, result,
          ret, decoded, stdout

vars == <<pc, fetches, acc_info, value, cache_db, journal, ip, result,
          ret, decoded, stdout>>

(***************************************************************************)
(* Words                                                                   *)
(***************************************************************************)
WordBits == 256
ReserveBits == 112
TimestampBits == 32
U128Bits == 128
\* the number of 16-bit limbs that hold `bits` bits
Limbs(bits) == bits \div 16

WordLimbs == Limbs(WordBits)

Const(x) == [i \in 1..WordLimbs |-> x]

ZERO == Const(0)

AllOnes == Const(65535)

\* 0x64ca691b00000000000000001d11899c51780000000003aa5712d4e77e453b6c
ExampleWord ==
    <<15212, 32325, 54503, 22290, 938, 0, 0,
      20856, 35228, 7441, 0, 0, 0, 0,
      26907, 25802>>

\* every limb differs, so a misplaced or reordered field shows
RampWord == [i \in 1..WordLimbs |-> i]

\* the top bit of each reserve field and the lowest bit of the timestamp:
\* bits 111, 223 and 224
FieldEdges ==
    [i \in 1..WordLimbs |->
        CASE i \in {7, 14} -> 32768
          [] i = 15 -> 1
          [] OTHER -> 0]

\* the lowest bit of reserve1 and the top bit of the word: bits 112 and 255
FieldStarts ==
    [i \in 1..WordLimbs |->
        CASE i = 8 -> 1
          [] i = 16 -> 32768
          [] OTHER -> 0]

\* the words the node may serve for slot 8
Words == {ZERO, AllOnes, ExampleWord, RampWord, FieldEdges, FieldStarts}

\* w >> bits, for a shift that is a whole number of limbs
ShiftRight(w, bits) ==
    [i \in 1..WordLimbs |->
        IF i + Limbs(bits) <= WordLimbs THEN w[i + Limbs(bits)] ELSE 0]

\* w & (2^bits - 1): the conversion to a narrower unsigned type
Truncate(w, bits) ==
    [i \in 1..WordLimbs |-> IF i <= Limbs(bits) THEN w[i] ELSE 0]

(***************************************************************************)
(* Addresses, slots, accounts                                              *)
(***************************************************************************)
pool_address == "0x0d4a11d5EEaaC28EC3F61d100daF4d40471f1852"

caller == "0x0000000000000000000000000000000000000000"

\* an account the target's bytecode may touch and main never seeds
other_address == "0x00000000000000000000000000000000000000ff"

slot == 8

\* how many slots after slot 8, none of them seeded by main, a probing
\* bytecode reads
MaxProbe == 2

ProbeSlots == (slot + 1)..(slot + MaxProbe)

\* the first of them (price0CumulativeLast of the pair)
other_slot == slot + 1

\* What the node may serve as the bytecode at pool_address:
\*   pair   - UniswapV2Pair: getReserves() loads slot 8 and returns it unpacked
\*   probe  - as pair, after touching unseeded slots (one of them twice) and
\*            an unseeded account
\*   revert - the call reverts
\*   halt   - the call halts (invalid opcode)
\*   empty  - no code at the address
Codes == {"pair", "probe", "revert", "halt", "empty"}

KECCAK_EMPTY == "keccak(empty)"

hash_slow(code) == IF code = "empty" THEN KECCAK_EMPTY ELSE <<"keccak", code>>

AccountInfoNew(balance, nonce, code_hash, code) ==
    [balance |-> balance, nonce |-> nonce, code_hash |-> code_hash, code |-> code]

\* AccountInfo::default()
DefaultInfo == AccountInfoNew(0, 0, KECCAK_EMPTY, "empty")

\* the AccountInfo EthersDB::basic builds from the node's answers
RemoteInfo(code) ==
    AccountInfoNew(0, IF code = "empty" THEN 0 ELSE 1, hash_slow(code), code)

None == <<>>

Some(x) == <<x>>

EmptyMap == [k \in {} |-> 0]

Put(f, k, v) == [x \in DOMAIN f \cup {k} |-> IF x = k THEN v ELSE f[x]]

(***************************************************************************)
(* revm::db::EmptyDB and revm::db::CacheDB<EmptyDB> (main.rs line 44).     *)
(* A CacheDB is [accounts |-> address :> DbAccount]; a read returns the    *)
(* database after the read together with the answer.                       *)
(***************************************************************************)
\* EmptyDB::basic_ref: no account anywhere
EmptyDB_basic_ref(address) == None

\* EmptyDB::storage_ref: every slot is zero
EmptyDB_storage_ref(address, index) == ZERO

\* CacheDB::new(EmptyDB::default())
CacheDB_new == [accounts |-> EmptyMap]

DbAccount(info, account_state) ==
    [info |-> info, account_state |-> account_state, storage |-> EmptyMap]

\* DbAccount::from(Option<AccountInfo>)
DbAccount_from(opt) ==
    IF opt = None THEN DbAccount(DefaultInfo, "NotExisting")
    ELSE DbAccount(opt[1], "None")

\* DbAccount::info
DbAccount_info(acc) ==
    IF acc.account_state = "NotExisting" THEN None ELSE Some(acc.info)

\* CacheDB::insert_account_info: accounts.entry(address).or_default().info = info
insert_account_info(db, address, info) ==
    LET old == IF address \in DOMAIN db.accounts
               THEN db.accounts[address]
               ELSE DbAccount(DefaultInfo, "None")
    IN  [db EXCEPT !.accounts = Put(@, address, [old EXCEPT !.info = info])]

\* load_account gone wrong: the backfill replaces the map instead of adding to it
load_account_evict(db, address) ==
    IF address \in DOMAIN db.accounts THEN db
    ELSE [db EXCEPT !.accounts =
            Put(EmptyMap, address, DbAccount_from(EmptyDB_basic_ref(address)))]

\* CacheDB::load_account: the entry, backfilled from the inner database
load_account(db, address) ==
    IF address \in DOMAIN db.accounts THEN db
    ELSE [db EXCEPT !.accounts =
            Put(@, address, DbAccount_from(EmptyDB_basic_ref(address)))]

\* CacheDB::insert_account_storage: load_account, then storage.insert
insert_account_storage(db, address, index, val) ==
    LET loaded == load_account(db, address)
    IN  [loaded EXCEPT !.accounts[address].storage = Put(@, index, val)]

\* Database::basic gone wrong: a miss is answered and not recorded
CacheDB_basic_nostore(db, address) ==
    IF address \in DOMAIN db.accounts
    THEN [db |-> db, val |-> DbAccount_info(db.accounts[address])]
    ELSE [db |-> db, val |-> EmptyDB_basic_ref(address)]

\* Database::basic for CacheDB
CacheDB_basic(db, address) ==
    LET loaded == load_account(db, address)
    IN  [db |-> loaded, val |-> DbAccount_info(loaded.accounts[address])]

\* Database::storage gone wrong: the inner database is asked before the cache
CacheDB_storage_inner_first(db, address, index) ==
    [db |-> insert_account_storage(db, address, index,
                                   EmptyDB_storage_ref(address, index)),
     val |-> EmptyDB_storage_ref(address, index)]

\* Database::storage for CacheDB
CacheDB_storage(db, address, index) ==
    IF address \in DOMAIN db.accounts
    THEN LET acc == db.accounts[address]
         IN  IF index \in DOMAIN acc.storage
             THEN [db |-> db, val |-> acc.storage[index]]
             ELSE IF acc.account_state \in {"StorageCleared", "NotExisting"}
             THEN [db |-> db, val |-> ZERO]
             ELSE LET v == EmptyDB_storage_ref(address, index)
                  IN  [db |-> [db EXCEPT !.accounts[address].storage =
                                  Put(@, index, v)],
                       val |-> v]
    ELSE LET info == EmptyDB_basic_ref(address)
         IN  IF info # None
             THEN LET v == EmptyDB_storage_ref(address, index)
                      acc == [DbAccount_from(info) EXCEPT
                                 !.storage = Put(@, index, v)]
                  IN  [db |-> [db EXCEPT !.accounts = Put(@, address, acc)],
                       val |-> v]
             ELSE [db |-> [db EXCEPT !.accounts =
                             Put(@, address, DbAccount_from(info))],
                   val |-> ZERO]

(***************************************************************************)
(* The call and its ABI                                                    *)
(***************************************************************************)
\* pool_contract.encode("getReserves", ()): the 4-byte selector
encoded == "0x0902f1ac"

\* TxEnv { caller, transact_to: Call(pool_address), data, value: ZERO, .. }
tx_env ==
    [caller |-> caller, transact_to |-> pool_address, data |-> encoded,
     value |-> ZERO]

AccountKey(address) == <<"account", address>>

StorageKey(address, index) == <<"storage", address, index>>

\* the state reads the bytecode makes, in order, before it returns
Script(code) ==
    CASE code = "pair"  -> <<StorageKey(pool_address, slot)>>
      [] code = "probe" -> [i \in 1..MaxProbe |-> StorageKey(pool_address, slot + i)]
                           \o <<AccountKey(other_address),
                                StorageKey(pool_address, other_slot),
                                StorageKey(pool_address, slot)>>
      [] OTHER -> <<>>

\* the three return words of getReserves(): uint112(w), uint112(w >> 112),
\* uint32(w >> 224), each right-aligned in its own 32-byte word
GetReservesOutput(w) ==
    <<Truncate(w, ReserveBits),
      Truncate(ShiftRight(w, ReserveBits), ReserveBits),
      Truncate(ShiftRight(w, ReserveBits + ReserveBits), TimestampBits)>>

\* the code the interpreter runs: that of the account it loaded for the target
LoadedCode(jrn) ==
    LET a == jrn[AccountKey(tx_env.transact_to)]
    IN  IF a = None THEN "empty" ELSE a[1].code

\* ExecutionResult of the call, from the code and the state it loaded
Execute(jrn) ==
    LET code == LoadedCode(jrn)
    IN  CASE code \in {"pair", "probe"} ->
               [tag |-> "Success", kind |-> "Call",
                output |-> IF tx_env.data = encoded
                           THEN GetReservesOutput(jrn[StorageKey(pool_address, slot)])
                           ELSE <<>>]
          [] code = "revert" -> [tag |-> "Revert", kind |-> "Call", output |-> <<>>]
          [] code = "halt" -> [tag |-> "Halt", kind |-> "Call", output |-> <<>>]
          [] OTHER -> [tag |-> "Success", kind |-> "Call", output |-> <<>>]

\* lines 65-71: Success { output: Output::Call(value) } => Some(value), _ => None
MatchResult(res) ==
    IF res.tag = "Success" /\ res.kind = "Call" THEN Some(res.output) ELSE None

\* decode_output gone wrong: reserve0 is decoded as a u64
decode_output_u64(bytes) ==
    IF Len(bytes) < 3 THEN None
    ELSE Some(<<Truncate(bytes[1], 64),
                Truncate(bytes[2], U128Bits),
                Truncate(bytes[3], TimestampBits)>>)

\* pool_contract.decode_output::<(u128, u128, u32)>: three 32-byte words, each
\* narrowed to the Rust type (U256::low_u128() as _); Err on short data
decode_output(bytes) ==
    IF Len(bytes) < 3 THEN None
    ELSE Some(<<Truncate(bytes[1], U128Bits),
                Truncate(bytes[2], U128Bits),
                Truncate(bytes[3], TimestampBits)>>)

(***************************************************************************)
(* The run: main(), one action per statement.  pc[r] names the statement   *)
(* run r executes next; "panicked" is an unwrap() that failed, "failed" a  *)
(* `?` that returned Err, "done" the return of Ok(()).                     *)
(***************************************************************************)
Runs == {"A", "B"}

InitRun(rs) ==
    /\ pc = [r \in rs |-> "config"]
    /\ fetches = [r \in rs |-> <<>>]
    /\ acc_info = [r \in rs |-> None]
    /\ value = [r \in rs |-> None]
    /\ cache_db = [r \in rs |-> None]
    /\ journal = [r \in rs |-> EmptyMap]
    /\ ip = [r \in rs |-> 1]
    /\ result = [r \in rs |-> None]
    /\ ret = [r \in rs |-> None]
    /\ decoded = [r \in rs |-> None]
    /\ stdout = [r \in rs |-> <<>>]

\* one process
Init == InitRun({"A"})

\* two processes started side by side
InitIso == InitRun(Runs)

\* run r exists and is about to execute the statement `label`
At(r, label) == r \in DOMAIN pc /\ pc[r] = label

Goto(r, label) == pc' = [pc EXCEPT ![r] = label]

\* one request of run r's EthersDB to the node: the key asked for and whether
\* the node answered
Request(r, key, ok) ==
    fetches' = [fetches EXCEPT ![r] = Append(@, [key |-> key, ok |-> ok])]

\* lines 18-21: dotenv, HTTP_URL, Provider::try_from
Config(r) ==
    /\ At(r, "config")
    /\ \/ Goto(r, "new_ethersdb")
       \/ Goto(r, "panicked")
       \/ Goto(r, "failed")
    /\ UNCHANGED <<fetches, acc_info, value, cache_db, journal, ip, result,
                   ret, decoded, stdout>>

\* line 29: EthersDB::new(client, None).unwrap() asks the node for the block number
NewEthersDB(r) ==
    /\ At(r, "new_ethersdb")
    /\ \/ Request(r, <<"block_number">>, TRUE) /\ Goto(r, "basic")
       \/ Request(r, <<"block_number">>, FALSE) /\ Goto(r, "panicked")
    /\ UNCHANGED <<acc_info, value, cache_db, journal, ip, result, ret,
                   decoded, stdout>>

\* line 34 gone wrong: unwrap_or_default() in place of unwrap()
FetchBasicIgnoreErr(r) ==
    /\ At(r, "basic")
    /\ \/ \E code \in Codes :
            /\ Request(r, AccountKey(pool_address), TRUE)
            /\ acc_info' = [acc_info EXCEPT ![r] = Some(RemoteInfo(code))]
       \/ /\ Request(r, AccountKey(pool_address), FALSE)
          /\ acc_info' = [acc_info EXCEPT ![r] = Some(DefaultInfo)]
    /\ Goto(r, "storage")
    /\ UNCHANGED <<value, cache_db, journal, ip, result, ret, decoded, stdout>>

\* line 34: ethersdb.basic(pool_address).unwrap().unwrap()
FetchBasic(r) ==
    /\ At(r, "basic")
    /\ \/ \E code \in Codes :
            /\ Request(r, AccountKey(pool_address), TRUE)
            /\ acc_info' = [acc_info EXCEPT ![r] = Some(RemoteInfo(code))]
            /\ Goto(r, "storage")
       \/ /\ Request(r, AccountKey(pool_address), FALSE)
          /\ Goto(r, "panicked")
          /\ UNCHANGED acc_info
    /\ UNCHANGED <<value, cache_db, journal, ip, result, ret, decoded, stdout>>

\* line 41 gone wrong: a failed request is sent once more
FetchStorageRetry(r) ==
    /\ At(r, "storage")
    /\ \/ \E w \in Words :
            /\ Request(r, StorageKey(pool_address, slot), TRUE)
            /\ value' = [value EXCEPT ![r] = Some(w)]
            /\ Goto(r, "print_value")
       \/ /\ fetches' = [fetches EXCEPT ![r] =
                           @ \o <<[key |-> StorageKey(pool_address, slot), ok |-> FALSE],
                                  [key |-> StorageKey(pool_address, slot), ok |-> FALSE]>>]
          /\ Goto(r, "panicked")
          /\ UNCHANGED value
    /\ UNCHANGED <<acc_info, cache_db, journal, ip, result, ret, decoded, stdout>>

\* line 41: ethersdb.storage(pool_address, slot).unwrap()
FetchStorage(r) ==
    /\ At(r, "storage")
    /\ \/ \E w \in Words :
            /\ Request(r, StorageKey(pool_address, slot), TRUE)
            /\ value' = [value EXCEPT ![r] = Some(w)]
            /\ Goto(r, "print_value")
       \/ /\ Request(r, StorageKey(pool_address, slot), FALSE)
          /\ Goto(r, "panicked")
          /\ UNCHANGED value
    /\ UNCHANGED <<acc_info, cache_db, journal, ip, result, ret, decoded, stdout>>

\* line 42: println!("{:?}", value)
PrintValue(r) ==
    /\ At(r, "print_value")
    /\ stdout' = [stdout EXCEPT ![r] = Append(@, <<"value", value[r][1]>>)]
    /\ Goto(r, "new_cache")
    /\ UNCHANGED <<fetches, acc_info, value, cache_db, journal, ip, result,
                   ret, decoded>>

\* line 44: CacheDB::new(EmptyDB::default())
NewCacheDB(r) ==
    /\ At(r, "new_cache")
    /\ cache_db' = [cache_db EXCEPT ![r] = Some(CacheDB_new)]
    /\ Goto(r, "insert_info")
    /\ UNCHANGED <<fetches, acc_info, value, journal, ip, result, ret,
                   decoded, stdout>>

\* line 46: cache_db.insert_account_info(pool_address, acc_info)
InsertAccountInfo(r) ==
    /\ At(r, "insert_info")
    /\ cache_db' = [cache_db EXCEPT ![r] =
                      Some(insert_account_info(@[1], pool_address, acc_info[r][1]))]
    /\ Goto(r, "insert_storage")
    /\ UNCHANGED <<fetches, acc_info, value, journal, ip, result, ret,
                   decoded, stdout>>

\* line 48 gone wrong: one store shared by the runs (a static) takes the entry
InsertAccountStorageShared(r) ==
    /\ At(r, "insert_storage")
    /\ cache_db' = [q \in DOMAIN cache_db |->
                      IF cache_db[q] = None THEN None
                      ELSE Some(insert_account_storage(cache_db[q][1], pool_address,
                                                       slot, value[r][1]))]
    /\ Goto(r, "encode")
    /\ UNCHANGED <<fetches, acc_info, value, journal, ip, result, ret,
                   decoded, stdout>>

\* line 48: cache_db.insert_account_storage(pool_address, slot, value)
InsertAccountStorage(r) ==
    /\ At(r, "insert_storage")
    /\ cache_db' = [cache_db EXCEPT ![r] =
                      Some(insert_account_storage(@[1], pool_address, slot, value[r][1]))]
    /\ Goto(r, "encode")
    /\ UNCHANGED <<fetches, acc_info, value, journal, ip, result, ret,
                   decoded, stdout>>

\* lines 49-51: parse_abi, encode("getReserves", ()), the caller address
Encode(r) ==
    /\ At(r, "encode")
    /\ Goto(r, "build")
    /\ UNCHANGED <<fetches, acc_info, value, cache_db, journal, ip, result,
                   ret, decoded, stdout>>

\* lines 53-62: Evm::builder().with_db(cache_db).with_tx_env(..).build()
BuildEvm(r) ==
    /\ At(r, "build")
    /\ Goto(r, "transact")
    /\ UNCHANGED <<fetches, acc_info, value, cache_db, journal, ip, result,
                   ret, decoded, stdout>>

\* a state read of the interpreter: the journal first, the Evm's database on a miss
EvmRead(r, key) ==
    IF key \in DOMAIN journal[r]
    THEN UNCHANGED <<journal, cache_db>>
    ELSE LET db == cache_db[r][1]
             rd == IF key[1] = "account"
                   THEN CacheDB_basic(db, key[2])
                   ELSE CacheDB_storage(db, key[2], key[3])
         IN  /\ cache_db' = [cache_db EXCEPT ![r] = Some(rd.db)]
             /\ journal' = [journal EXCEPT ![r] = Put(@, key, rd.val)]

\* line 63 gone wrong: the store was built over the EthersDB, CacheDB::new(ethersdb),
\* so the miss on the caller's account goes to the node
EvmLoadCallerRemote(r) ==
    /\ At(r, "transact")
    /\ Request(r, AccountKey(tx_env.caller), TRUE)
    /\ cache_db' = [cache_db EXCEPT ![r] =
                      Some(insert_account_info(@[1], tx_env.caller, RemoteInfo("empty")))]
    /\ journal' = [journal EXCEPT ![r] =
                     Put(@, AccountKey(tx_env.caller), Some(RemoteInfo("empty")))]
    /\ Goto(r, "evm_target")
    /\ UNCHANGED <<acc_info, value, ip, result, ret, decoded, stdout>>

\* line 63, evm.transact(): the caller's account is loaded and validated
EvmLoadCaller(r) ==
    /\ At(r, "transact")
    /\ EvmRead(r, AccountKey(tx_env.caller))
    /\ Goto(r, "evm_target")
    /\ UNCHANGED <<fetches, acc_info, value, ip, result, ret, decoded, stdout>>

\* line 63, evm.transact(): the target's account and code are loaded
EvmLoadTarget(r) ==
    /\ At(r, "evm_target")
    /\ EvmRead(r, AccountKey(tx_env.transact_to))
    /\ ip' = [ip EXCEPT ![r] = 1]
    /\ Goto(r, "evm_interp")
    /\ UNCHANGED <<fetches, acc_info, value, result, ret, decoded, stdout>>

\* line 63, evm.transact(): the next state read of the bytecode
EvmStep(r) ==
    /\ At(r, "evm_interp")
    /\ ip[r] <= Len(Script(LoadedCode(journal[r])))
    /\ EvmRead(r, Script(LoadedCode(journal[r]))[ip[r]])
    /\ ip' = [ip EXCEPT ![r] = @ + 1]
    /\ UNCHANGED <<pc, fetches, acc_info, value, result, ret, decoded, stdout>>

\* line 63, evm.transact().unwrap(): the call ends; nothing is committed
EvmReturn(r) ==
    /\ At(r, "evm_interp")
    /\ ip[r] > Len(Script(LoadedCode(journal[r])))
    /\ result' = [result EXCEPT ![r] = Some(Execute(journal[r]))]
    /\ Goto(r, "match")
    /\ UNCHANGED <<fetches, acc_info, value, cache_db, journal, ip, ret,
                   decoded, stdout>>

\* lines 64-71: let value = match result { .. }
Match(r) ==
    /\ At(r, "match")
    /\ ret' = [ret EXCEPT ![r] = MatchResult(result[r][1])]
    /\ Goto(r, "print_ret")
    /\ UNCHANGED <<fetches, acc_info, value, cache_db, journal, ip, result,
                   decoded, stdout>>

\* line 72: println!("value====>{:?}", value)
PrintRet(r) ==
    /\ At(r, "print_ret")
    /\ stdout' = [stdout EXCEPT ![r] = Append(@, <<"value====>", ret[r]>>)]
    /\ Goto(r, "decode")
    /\ UNCHANGED <<fetches, acc_info, value, cache_db, journal, ip, result,
                   ret, decoded>>

\* lines 74-75 gone wrong: value.unwrap_or_default() and a decoder that fills
\* missing words with zero
DecodeDefault(r) ==
    /\ At(r, "decode")
    /\ decoded' = [decoded EXCEPT ![r] =
                     IF ret[r] = None \/ decode_output(ret[r][1]) = None
                     THEN Some(<<ZERO, ZERO, ZERO>>)
                     ELSE decode_output(ret[r][1])]
    /\ Goto(r, "print_tuple")
    /\ UNCHANGED <<fetches, acc_info, value, cache_db, journal, ip, result,
                   ret, stdout>>

\* lines 74-75 gone wrong: the decode error is dropped, .unwrap_or_default()
\* in place of `?`
DecodeIgnoreErr(r) ==
    /\ At(r, "decode")
    /\ IF ret[r] = None
       THEN Goto(r, "panicked") /\ UNCHANGED decoded
       ELSE /\ decoded' = [decoded EXCEPT ![r] =
                             IF decode_output(ret[r][1]) = None
                             THEN Some(<<ZERO, ZERO, ZERO>>)
                             ELSE decode_output(ret[r][1])]
            /\ Goto(r, "print_tuple")
    /\ UNCHANGED <<fetches, acc_info, value, cache_db, journal, ip, result,
                   ret, stdout>>

\* lines 74-75: pool_contract.decode_output("getReserves", value.unwrap())?
Decode(r) ==
    /\ At(r, "decode")
    /\ IF ret[r] = None
       THEN Goto(r, "panicked") /\ UNCHANGED decoded
       ELSE IF decode_output(ret[r][1]) = None
       THEN Goto(r, "failed") /\ UNCHANGED decoded
       ELSE /\ decoded' = [decoded EXCEPT ![r] = decode_output(ret[r][1])]
            /\ Goto(r, "print_tuple")
    /\ UNCHANGED <<fetches, acc_info, value, cache_db, journal, ip, result,
                   ret, stdout>>

\* lines 77-80: println!("pool_contract.decode_output>>>>>>>>>{:?} {:?} {:?}", ..)
PrintTuple(r) ==
    /\ At(r, "print_tuple")
    /\ stdout' = [stdout EXCEPT ![r] =
                    Append(@, <<"pool_contract.decode_output>>>>>>>>>", decoded[r][1]>>)]
    /\ Goto(r, "return")
    /\ UNCHANGED <<fetches, acc_info, value, cache_db, journal, ip, result,
                   ret, decoded>>

\* line 81: Ok(())
Return(r) ==
    /\ At(r, "return")
    /\ Goto(r, "done")
    /\ UNCHANGED <<fetches, acc_info, value, cache_db, journal, ip, result,
                   ret, decoded, stdout>>

\* a step of one of the runs
Next ==
    \/ \E r \in Runs : Config(r)
    \/ \E r \in Runs : NewEthersDB(r)
    \/ \E r \in Runs : FetchBasic(r)
    \/ \E r \in Runs : FetchStorage(r)
    \/ \E r \in Runs : PrintValue(r)
    \/ \E r \in Runs : NewCacheDB(r)
    \/ \E r \in Runs : InsertAccountInfo(r)
    \/ \E r \in Runs : InsertAccountStorage(r)
    \/ \E r \in Runs : Encode(r)
    \/ \E r \in Runs : BuildEvm(r)
    \/ \E r \in Runs : EvmLoadCaller(r)
    \/ \E r \in Runs : EvmLoadTarget(r)
    \/ \E r \in Runs : EvmStep(r)
    \/ \E r \in Runs : EvmReturn(r)
    \/ \E r \in Runs : Match(r)
    \/ \E r \in Runs : PrintRet(r)
    \/ \E r \in Runs : Decode(r)
    \/ \E r \in Runs : PrintTuple(r)
    \/ \E r \in Runs : Return(r)

Spec == Init /\ [][Next]_vars

SpecIso == InitIso /\ [][Next]_vars

(***************************************************************************)
(* Vocabulary of the properties                                            *)
(***************************************************************************)
\* the statements of evm.transact()
EvmPcs == {"transact", "evm_target", "evm_interp"}

\* the run ended without returning Ok(())
Aborted == {"panicked", "failed"}

Terminal == Aborted \cup {"done"}

SlotKey == StorageKey(pool_address, slot)

PoolKey == AccountKey(pool_address)

\* both injections of lines 46 and 48 have been made
Seeded(r) == cache_db[r] # None /\ pc[r] \notin {"insert_info", "insert_storage"}

\* evm.transact() has begun
Executing(r) == pc[r] \in EvmPcs \/ journal[r] # EmptyMap \/ result[r] # None

\* what a read of `key` through the Database interface of `db` answers
StoreAnswer(db, key) ==
    IF key[1] = "account" THEN CacheDB_basic(db, key[2]).val
    ELSE CacheDB_storage(db, key[2], key[3]).val

\* the override store holds an entry of its own for `key`
InStore(db, key) ==
    /\ key[2] \in DOMAIN db.accounts
    /\ key[1] = "storage" => key[3] \in DOMAIN db.accounts[key[2]].storage

\* that entry
Entry(db, key) ==
    IF key[1] = "account" THEN DbAccount_info(db.accounts[key[2]])
    ELSE db.accounts[key[2]].storage[key[3]]

\* the answer for a key nobody seeded: no account, the zero word
DefaultAnswer(key) == IF key[1] = "account" THEN None ELSE ZERO

\* the store has recorded the answer for `key`: the entry itself, or an
\* account known not to exist, whose every slot is zero
Recorded(db, key) ==
    /\ key[2] \in DOMAIN db.accounts
    /\ key[1] = "storage" =>
         \/ key[3] \in DOMAIN db.accounts[key[2]].storage
         \/ db.accounts[key[2]].account_state \in {"StorageCleared", "NotExisting"}

\* the requests of a run whose seeding succeeded, in order
SeedRequests ==
    <<[key |-> <<"block_number">>, ok |-> TRUE],
      [key |-> PoolKey, ok |-> TRUE],
      [key |-> SlotKey, ok |-> TRUE]>>

\* how many requests for `key` run r has sent to the node
FetchCount(r, key) ==
    Cardinality({i \in 1..Len(fetches[r]) : fetches[r][i].key = key})

\* the bit range [lo, hi) of w as a number
Field(w, lo, hi) ==
    [i \in 1..WordLimbs |->
        IF i <= Limbs(hi - lo) THEN w[Limbs(lo) + i] ELSE 0]

\* a line of the decoded tuple is on the run's standard output
TuplePrinted(r) ==
    \E i \in 1..Len(stdout[r]) :
        stdout[r][i][1] = "pool_contract.decode_output>>>>>>>>>"

\* the stage of the pipeline a statement belongs to: Idle 0, StateSeeded 1,
\* Executed 2, Decoded 3, Done 4
Stage(label) ==
    CASE label \in {"config", "new_ethersdb", "basic", "storage", "print_value",
                    "new_cache", "insert_info", "insert_storage"} -> 0
      [] label \in {"encode", "build"} \cup EvmPcs -> 1
      [] label \in {"match", "print_ret", "decode"} -> 2
      [] label \in {"print_tuple", "return"} -> 3
      [] label = "done" -> 4
      [] OTHER -> 0 - 1

(***************************************************************************)
(* C1                                                                      *)
(***************************************************************************)
\* C1: once evm.transact() has begun, the run's requests to the node are
\* exactly the three of the seeding, all answered, the fetched account info
\* and slot are in the override store, and every answer the executor got is
\* the answer the override store gives by itself.
C1_NoRemoteDuringExecution ==
    \A r \in DOMAIN pc :
        Executing(r) =>
            /\ fetches[r] = SeedRequests
            /\ InStore(cache_db[r][1], PoolKey)
            /\ Entry(cache_db[r][1], PoolKey) = acc_info[r]
            /\ InStore(cache_db[r][1], SlotKey)
            /\ Entry(cache_db[r][1], SlotKey) = value[r][1]
            /\ \A k \in DOMAIN journal[r] :
                   journal[r][k] = StoreAnswer(cache_db[r][1], k)

\* the call has ended after reading seeded and unseeded keys
C1_Witness ==
    \E r \in DOMAIN pc :
        /\ pc[r] = "match"
        /\ SlotKey \in DOMAIN journal[r]
        /\ AccountKey(caller) \in DOMAIN journal[r]
        /\ Len(fetches[r]) = 3

(***************************************************************************)
(* C2                                                                      *)
(***************************************************************************)
\* C2: after insert_account_storage(pool_address, slot, value), a read of that
\* slot through the store answers exactly value, in every later state, and the
\* executor's read of the slot got exactly value, whatever it read before.
C2_OverridePrecedence ==
    \A r \in DOMAIN pc :
        Seeded(r) =>
            /\ StoreAnswer(cache_db[r][1], SlotKey) = value[r][1]
            /\ SlotKey \in DOMAIN journal[r] => journal[r][SlotKey] = value[r][1]

\* the executor read the slot after reads of other keys and got the override
C2_Witness ==
    \E r \in DOMAIN pc :
        /\ Seeded(r)
        /\ value[r][1] = AllOnes
        /\ StorageKey(pool_address, other_slot) \in DOMAIN journal[r]
        /\ SlotKey \in DOMAIN journal[r]
        /\ journal[r][SlotKey] = AllOnes

(***************************************************************************)
(* C3                                                                      *)
(***************************************************************************)
\* C3: a run sends the node at most one request per key, and reading any key
\* twice through the store gives the same answer twice, the second read
\* leaving the store as the first left it.
C3_IdempotentFetch ==
    \A r \in DOMAIN pc :
        /\ \A i \in 1..Len(fetches[r]) : FetchCount(r, fetches[r][i].key) <= 1
        /\ cache_db[r] # None =>
             \A a \in {pool_address, caller, other_address} :
                 /\ LET r1 == CacheDB_basic(cache_db[r][1], a)
                        r2 == CacheDB_basic(r1.db, a)
                    IN  r2.val = r1.val /\ r2.db = r1.db
                 /\ \A s \in {slot} \cup ProbeSlots :
                        LET r1 == CacheDB_storage(cache_db[r][1], a, s)
                            r2 == CacheDB_storage(r1.db, a, s)
                        IN  r2.val = r1.val /\ r2.db = r1.db

\* both keys were fetched and the bytecode has read one slot twice
C3_Witness ==
    \E r \in DOMAIN pc :
        /\ pc[r] = "evm_interp"
        /\ LoadedCode(journal[r]) = "probe"
        /\ ip[r] = MaxProbe + 3
        /\ FetchCount(r, PoolKey) = 1
        /\ FetchCount(r, SlotKey) = 1

(***************************************************************************)
(* C4                                                                      *)
(***************************************************************************)
\* C4 as claimed: a key the executor read that was never seeded was fetched
\* from the node.
C4_Original ==
    \A r \in DOMAIN pc :
        \A k \in DOMAIN journal[r] :
            k \in {PoolKey, SlotKey} \/ FetchCount(r, k) >= 1

\* C4, amended: a read of a key the override store holds answers the stored
\* entry and changes nothing; a read of a key it does not hold asks the
\* store's inner EmptyDB, not the node: the answer is no account or the zero
\* word, the store records it, and no request is sent.
C4_CacheThenEmpty ==
    [][\A r \in DOMAIN pc :
         \A k \in DOMAIN journal'[r] \ DOMAIN journal[r] :
             IF InStore(cache_db[r][1], k)
             THEN /\ journal'[r][k] = Entry(cache_db[r][1], k)
                  /\ cache_db'[r] = cache_db[r]
             ELSE /\ journal'[r][k] = DefaultAnswer(k)
                  /\ fetches'[r] = fetches[r]
                  /\ Recorded(cache_db'[r][1], k)
                  /\ StoreAnswer(cache_db'[r][1], k) = DefaultAnswer(k)]_vars

\* the executor read a seeded slot and got it, and read an unseeded account
\* and an unseeded slot and got the defaults
C4_Witness ==
    \E r \in DOMAIN pc :
        /\ SlotKey \in DOMAIN journal[r]
        /\ journal[r][SlotKey] = ExampleWord
        /\ AccountKey(other_address) \in DOMAIN journal[r]
        /\ journal[r][AccountKey(other_address)] = None
        /\ StorageKey(pool_address, other_slot) \in DOMAIN journal[r]
        /\ journal[r][StorageKey(pool_address, other_slot)] = ZERO
        /\ InStore(cache_db[r][1], StorageKey(pool_address, other_slot))

(***************************************************************************)
(* C5                                                                      *)
(***************************************************************************)
\* C5: when the target's call reverts, the result is Revert, nothing is
\* decoded, no tuple is printed and the run never reaches the statements
\* after the decode.
C5_RevertPath ==
    \A r \in DOMAIN pc :
        (result[r] # None /\ LoadedCode(journal[r]) = "revert") =>
            /\ result[r][1].tag = "Revert"
            /\ decoded[r] = None
            /\ ~TuplePrinted(r)
            /\ pc[r] \in {"match", "print_ret", "decode", "panicked"}

\* a reverted call ended the run at value.unwrap()
C5_Witness ==
    \E r \in DOMAIN pc :
        /\ pc[r] = "panicked"
        /\ result[r] # None
        /\ result[r][1].tag = "Revert"
        /\ ret[r] = None

(***************************************************************************)
(* C6                                                                      *)
(***************************************************************************)
\* C6: a request the node did not answer is the last request of the run: the
\* run has panicked, no store was built and nothing was executed.
C6_FetchFailureAborts ==
    \A r \in DOMAIN pc :
        \A i \in 1..Len(fetches[r]) :
            ~fetches[r][i].ok =>
                /\ i = Len(fetches[r])
                /\ pc[r] = "panicked"
                /\ cache_db[r] = None
                /\ journal[r] = EmptyMap
                /\ result[r] = None

\* the fetch of the account info failed
C6_Witness ==
    \E r \in DOMAIN pc :
        /\ fetches[r] # <<>>
        /\ fetches[r][Len(fetches[r])] = [key |-> PoolKey, ok |-> FALSE]
        /\ pc[r] = "panicked"

C9_Isolation ==
    \A a \in DOMAIN pc : \A b \in DOMAIN pc \ {a} :
        (Seeded(a) /\ Seeded(b) /\ value[a] # value[b]) =>
            /\ StoreAnswer(cache_db[b][1], SlotKey) # value[a][1]
            /\ SlotKey \in DOMAIN journal[b] => journal[b][SlotKey] # value[a][1]
            /\ DOMAIN stdout[b] # {} => stdout[b][1] # <<"value", value[a][1]>>

\* two runs with different overrides both executed the read of the slot
C9_Witness ==
    \E a \in DOMAIN pc : \E b \in DOMAIN pc \ {a} :
        /\ value[a] = Some(ExampleWord)
        /\ value[b] = Some(AllOnes)
        /\ SlotKey \in DOMAIN journal[a]
        /\ SlotKey \in DOMAIN journal[b]
        /\ pc[a] = "done"
        /\ pc[b] = "done"

(***************************************************************************)
(* C10                                                                     *)
(***************************************************************************)
\* C10: once both entries are injected, no step changes the pool's account
\* info or the value at slot 8 in the store: each stays what was injected.
C10_InjectedUnchanged ==
    [][\A r \in DOMAIN pc :
         Seeded(r) =>
             /\ InStore(cache_db'[r][1], PoolKey)
             /\ InStore(cache_db'[r][1], SlotKey)
             /\ cache_db'[r][1].accounts[pool_address].info = acc_info[r][1]
             /\ cache_db'[r][1].accounts[pool_address].info
                  = cache_db[r][1].accounts[pool_address].info
             /\ Entry(cache_db'[r][1], SlotKey) = value[r][1]
             /\ Entry(cache_db'[r][1], SlotKey) = Entry(cache_db[r][1], SlotKey)]_vars

\* the call ended after backfilling an account and a slot nobody seeded
C10_Witness ==
    \E r \in DOMAIN pc :
        /\ result[r] # None
        /\ InStore(cache_db[r][1], AccountKey(caller))
        /\ InStore(cache_db[r][1], AccountKey(other_address))
        /\ InStore(cache_db[r][1], StorageKey(pool_address, other_slot))
        /\ Entry(cache_db[r][1], SlotKey) = RampWord

====
